---- MODULE Spec2Model ----
(***************************************************************************)
(* Motion_Tracking_opencv.ipynb: the frame-difference motion detector.     *)
(*                                                                         *)
(* The script is one straight-line cell: two initial cap.read() calls, a   *)
(* print of frame1.shape, and a while loop that runs the pipeline          *)
(* (absdiff, cvtColor, GaussianBlur, threshold, dilate, findContours), the *)
(* contour loop (contourArea filter, boundingRect, rectangle, putText),    *)
(* resize + out.write, imshow, the frame roll with the next cap.read(),    *)
(* and the ESC poll; then the three cleanup calls.                         *)
(*                                                                         *)
(* A frame is modelled by one pixel row of W BGR pixels (a cross-section   *)
(* of the image): on a one-row image the vertical pass of the separable    *)
(* blur and of the dilation is the identity, so the row laws below are the *)
(* library's laws on that row.  The vertical extent of a region is not in  *)
(* the row, so the area cv2.contourArea returns for a contour is an input, *)
(* drawn from AreaVals.  Numpy arrays are heap objects: frames[id] is the  *)
(* object, frame1 and frame2 are references (ids, NULL for None).          *)
(***************************************************************************)
EXTENDS Integers, Sequences, FiniteSets

VARIABLES
    capOpened,   \* cap.isOpened()
    outOpened,   \* out.isOpened()
    frames,      \* heap of frame objects, in capture order
    frame1,      \* reference held by the name frame1 (NULL = None)
    frame2,      \* reference held by the name frame2 (NULL = None)
    ret,         \* the name ret
    stage,       \* diff, gray, blur, thresh, dilated of the current iteration
    contours,    \* the name contours
    written,     \* images handed to out.write, in order
    shown,       \* reference last handed to cv2.imshow (NULL = none)
    diffLog,     \* operands of every cv2.absdiff call, in order
    cleanupLog,  \* cleanup calls made, in order
    reads,       \* number of cap.read() calls made
    iter,        \* number of loop bodies entered
    escAt,       \* iteration whose waitKey returned 27 (0 = none)
    failedAt,    \* iteration of the first out.write the writer did not take (0 = none)
    pc           \* position in the script

vars == <<capOpened, outOpened, frames, frame1, frame2, ret, stage, contours,
          written, shown, diffLog, cleanupLog, reads, iter, escAt, failedAt, pc>>

-----------------------------------------------------------------------------
\* Bounds of the model.
MaxFrames == 3      \* the capture source yields at most this many frames
W == 11             \* pixels in the modelled row

\* Constants of the script.
Thresh == 20
MaxVal == 255
Iterations == 3
MinArea == 800
EscKey == 27

NULL == 0

Cells == 1..W
Black == <<0, 0, 0>>
White == <<255, 255, 255>>
Uniform(p) == [i \in Cells |-> p]
Spot(S, p) == [i \in Cells |-> IF i \in S THEN p ELSE Black]

\* Rows the capture source may deliver.
FrameVals ==
    { Uniform(Black), Uniform(<<20, 20, 20>>), Uniform(<<21, 21, 21>>),
      Spot({1, W}, White), Spot({1, W}, <<0, 0, 255>>) }

\* Values cv2.contourArea may return for a contour.
AreaVals == {799, 800, 801}

\* Values cv2.waitKey(40) may return: ESC, or -1 for no key.
KeyVals == {EscKey, -1}

Abs(n) == IF n < 0 THEN -n ELSE n

-----------------------------------------------------------------------------
\* The pipeline's grid operations.

\* cv2.absdiff on uint8: per pixel, per channel |a - b|.
AbsDiff(a, b) == [i \in Cells |-> [c \in 1..3 |-> Abs(a[i][c] - b[i][c])]]

\* cv2.cvtColor(.., COLOR_BGR2GRAY) on uint8: 14-bit fixed point, rounded.
Gray(d) ==
    [i \in Cells |->
        (d[i][1] * 1868 + d[i][2] * 9617 + d[i][3] * 4899 + 8192) \div 16384]

\* BORDER_REFLECT_101 (the default border of GaussianBlur), 1-based.
RECURSIVE Reflect101(_)
Reflect101(p) ==
    IF W = 1 THEN 1
    ELSE IF p < 1 THEN Reflect101(2 - p)
    ELSE IF p > W THEN Reflect101(2 * W - p)
    ELSE p

\* cv2.GaussianBlur(gray, (5, 5), 0) on uint8: kernel (1 4 6 4 1)/16, rounded.
GaussianBlur(g) ==
    [i \in Cells |->
        (g[Reflect101(i - 2)] + 4 * g[Reflect101(i - 1)] + 6 * g[i]
         + 4 * g[Reflect101(i + 1)] + g[Reflect101(i + 2)] + 8) \div 16]

\* Variants of the cut: inclusive at the cutoff, and inverted (THRESH_BINARY_INV).
ThresholdGE(b) == [i \in Cells |-> IF b[i] >= Thresh THEN MaxVal ELSE 0]
ThresholdInv(b) == [i \in Cells |-> IF b[i] > Thresh THEN 0 ELSE MaxVal]
\* cv2.threshold(blur, 20, 255, cv2.THRESH_BINARY): maxval where src > thresh.
Threshold(b) == [i \in Cells |-> IF b[i] > Thresh THEN MaxVal ELSE 0]

SetMax(S) == CHOOSE m \in S : \A x \in S : x <= m

\* One pass of the default 3x3 dilation; cells outside the image are ignored.
Dilate1(m) == [i \in Cells |-> SetMax({m[j] : j \in {i - 1, i, i + 1} \cap Cells})]

\* cv2.dilate(thresh, None, iterations=n).
RECURSIVE Dilate(_, _)
Dilate(m, n) == IF n = 0 THEN m ELSE Dilate(Dilate1(m), n - 1)

\* End of the run of non-zero cells that starts at cell a.
RECURSIVE RunEnd(_, _)
RunEnd(m, a) == IF a < W /\ m[a + 1] # 0 THEN RunEnd(m, a + 1) ELSE a

\* cv2.findContours(dilated, RETR_TREE, CHAIN_APPROX_SIMPLE) on the row: one
\* contour per connected run of non-zero cells, in scan order.
RECURSIVE FindRuns(_, _)
FindRuns(m, i) ==
    IF i > W THEN << >>
    ELSE IF m[i] = 0 THEN FindRuns(m, i + 1)
    ELSE <<[a |-> i, b |-> RunEnd(m, i)]>> \o FindRuns(m, RunEnd(m, i) + 1)

FindContours(m) == FindRuns(m, 1)

\* cv2.boundingRect(contour): 0-based x and width of the contour's cells.
BoundingRect(c) == [x |-> c.a - 1, w |-> c.b - c.a + 1]

-----------------------------------------------------------------------------
\* The contour loop.

\* Variant of the filter that also drops a contour of exactly minArea.
SurvivesGT(area, minArea) == area > minArea
\* Lines 96-97: `if cv2.contourArea(contour) < 800: continue`.
Survives(area, minArea) == ~(area < minArea)

Rectangle(fr, r) == [fr EXCEPT !.rects = Append(@, r)]
PutText(fr) == [fr EXCEPT !.labels = @ + 1]

\* Variant of the loop body with putText placed before the area test.
ContourStepLabelFirst(fr, c) ==
    IF ~Survives(c.area, MinArea) THEN PutText(fr)
    ELSE PutText(Rectangle(fr, BoundingRect(c)))
\* One pass of the body of `for contour in contours` on the object frame1.
ContourStep(fr, c) ==
    IF ~Survives(c.area, MinArea) THEN fr
    ELSE PutText(Rectangle(fr, BoundingRect(c)))

RECURSIVE ContourLoop(_, _)
ContourLoop(fr, cs) ==
    IF cs = << >> THEN fr ELSE ContourLoop(ContourStep(fr, Head(cs)), Tail(cs))

\* Contours of cs that pass the filter at minArea, in order.
RECURSIVE Surviving(_, _)
Surviving(cs, minArea) ==
    IF cs = << >> THEN << >>
    ELSE (IF Survives(Head(cs).area, minArea) THEN <<Head(cs)>> ELSE << >>)
         \o Surviving(Tail(cs), minArea)

\* A frame object as cap.read() delivers it: pixels, no drawing on it.
Fresh(pix) == [pix |-> pix, rects |-> << >>, labels |-> 0]
Clean(id) == frames[id].rects = << >> /\ frames[id].labels = 0

NoStage == [diff |-> << >>, gray |-> << >>, blur |-> << >>,
            thresh |-> << >>, dilated |-> << >>]

-----------------------------------------------------------------------------
Init ==
    /\ capOpened \in BOOLEAN
    /\ outOpened \in BOOLEAN
    /\ frames = << >>
    /\ frame1 = NULL
    /\ frame2 = NULL
    /\ ret = FALSE
    /\ stage = NoStage
    /\ contours = << >>
    /\ written = << >>
    /\ shown = NULL
    /\ diffLog = << >>
    /\ cleanupLog = << >>
    /\ reads = 0
    /\ iter = 0
    /\ escAt = 0
    /\ failedAt = 0
    /\ pc = "read1"

\* cap.read(): (True, a new array) or (False, None).
CanYield == capOpened /\ Len(frames) < MaxFrames

\* Line 70: ret, frame1 = cap.read()
Read1 ==
    /\ pc = "read1"
    /\ \/ /\ CanYield
          /\ \E pix \in FrameVals : frames' = Append(frames, Fresh(pix))
          /\ frame1' = Len(frames) + 1
          /\ ret' = TRUE
       \/ /\ frames' = frames
          /\ frame1' = NULL
          /\ ret' = FALSE
    /\ reads' = reads + 1
    /\ pc' = "read2"
    /\ UNCHANGED <<capOpened, outOpened, frame2, stage, contours, written, shown,
                   diffLog, cleanupLog, iter, escAt, failedAt>>

\* Line 71: ret, frame2 = cap.read()
Read2 ==
    /\ pc = "read2"
    /\ \/ /\ CanYield
          /\ \E pix \in FrameVals : frames' = Append(frames, Fresh(pix))
          /\ frame2' = Len(frames) + 1
          /\ ret' = TRUE
       \/ /\ frames' = frames
          /\ frame2' = NULL
          /\ ret' = FALSE
    /\ reads' = reads + 1
    /\ pc' = "print"
    /\ UNCHANGED <<capOpened, outOpened, frame1, stage, contours, written, shown,
                   diffLog, cleanupLog, iter, escAt, failedAt>>

\* Variant of the print that tolerates None.
PrintShapeAny ==
    /\ pc = "print"
    /\ pc' = "guard"
    /\ UNCHANGED <<capOpened, outOpened, frames, frame1, frame2, ret, stage,
                   contours, written, shown, diffLog, cleanupLog, reads, iter,
                   escAt, failedAt>>
\* Line 73: print(f"Frame size: {frame1.shape}"); None has no attribute shape.
PrintShape ==
    /\ pc = "print"
    /\ pc' = IF frame1 = NULL THEN "crashed" ELSE "guard"
    /\ UNCHANGED <<capOpened, outOpened, frames, frame1, frame2, ret, stage,
                   contours, written, shown, diffLog, cleanupLog, reads, iter,
                   escAt, failedAt>>

\* Line 75: while cap.isOpened() and ret:
LoopGuard ==
    /\ pc = "guard"
    /\ IF capOpened /\ ret
       THEN pc' = "absdiff" /\ iter' = iter + 1
       ELSE pc' = "release_cap" /\ iter' = iter
    /\ UNCHANGED <<capOpened, outOpened, frames, frame1, frame2, ret, stage,
                   contours, written, shown, diffLog, cleanupLog, reads, escAt,
                   failedAt>>

\* Lines 76-77: diff = cv2.absdiff(frame1, frame2); raises on a None operand.
AbsDiffStep ==
    /\ pc = "absdiff"
    /\ IF frame1 = NULL \/ frame2 = NULL
       THEN /\ pc' = "crashed"
            /\ UNCHANGED <<stage, diffLog>>
       ELSE /\ stage' = [NoStage EXCEPT
                           !.diff = AbsDiff(frames[frame1].pix, frames[frame2].pix)]
            /\ diffLog' = Append(diffLog,
                                 [a |-> frame1, b |-> frame2,
                                  clean |-> Clean(frame1) /\ Clean(frame2)])
            /\ pc' = "gray"
    /\ UNCHANGED <<capOpened, outOpened, frames, frame1, frame2, ret, contours,
                   written, shown, cleanupLog, reads, iter, escAt, failedAt>>

\* Line 80: gray = cv2.cvtColor(diff, cv2.COLOR_BGR2GRAY)
GrayStep ==
    /\ pc = "gray"
    /\ stage' = [stage EXCEPT !.gray = Gray(stage.diff)]
    /\ pc' = "blur"
    /\ UNCHANGED <<capOpened, outOpened, frames, frame1, frame2, ret, contours,
                   written, shown, diffLog, cleanupLog, reads, iter, escAt,
                   failedAt>>

\* Line 83: blur = cv2.GaussianBlur(gray, (5, 5), 0)
BlurStep ==
    /\ pc = "blur"
    /\ stage' = [stage EXCEPT !.blur = GaussianBlur(stage.gray)]
    /\ pc' = "threshold"
    /\ UNCHANGED <<capOpened, outOpened, frames, frame1, frame2, ret, contours,
                   written, shown, diffLog, cleanupLog, reads, iter, escAt,
                   failedAt>>

\* Line 86: _, thresh = cv2.threshold(blur, 20, 255, cv2.THRESH_BINARY)
ThresholdStep ==
    /\ pc = "threshold"
    /\ stage' = [stage EXCEPT !.thresh = Threshold(stage.blur)]
    /\ pc' = "dilate"
    /\ UNCHANGED <<capOpened, outOpened, frames, frame1, frame2, ret, contours,
                   written, shown, diffLog, cleanupLog, reads, iter, escAt,
                   failedAt>>

\* Line 89: dilated = cv2.dilate(thresh, None, iterations=3)
DilateStep ==
    /\ pc = "dilate"
    /\ stage' = [stage EXCEPT !.dilated = Dilate(stage.thresh, Iterations)]
    /\ pc' = "findcontours"
    /\ UNCHANGED <<capOpened, outOpened, frames, frame1, frame2, ret, contours,
                   written, shown, diffLog, cleanupLog, reads, iter, escAt,
                   failedAt>>

\* Line 92: contours, _ = cv2.findContours(dilated, RETR_TREE, CHAIN_APPROX_SIMPLE);
\* each contour carries the area cv2.contourArea will return for it.
FindContoursStep ==
    /\ pc = "findcontours"
    /\ LET found == FindContours(stage.dilated)
       IN  \E area \in [1..Len(found) -> AreaVals] :
               contours' = [k \in 1..Len(found) |->
                               [a |-> found[k].a, b |-> found[k].b,
                                area |-> area[k]]]
    /\ pc' = "contours"
    /\ UNCHANGED <<capOpened, outOpened, frames, frame1, frame2, ret, stage,
                   written, shown, diffLog, cleanupLog, reads, iter, escAt,
                   failedAt>>

\* Lines 95-101: the contour loop draws in place on the object frame1 names.
ProcessContours ==
    /\ pc = "contours"
    /\ frames' = [frames EXCEPT ![frame1] = ContourLoop(@, contours)]
    /\ pc' = "write"
    /\ UNCHANGED <<capOpened, outOpened, frame1, frame2, ret, stage, contours,
                   written, shown, diffLog, cleanupLog, reads, iter, escAt,
                   failedAt>>

\* Line 104: image = cv2.resize(frame1, (1280, 720)): a copy of the object as
\* drawn so far, at the output size.
Resize(id) ==
    [of |-> id, size |-> <<1280, 720>>,
     rects |-> frames[id].rects, labels |-> frames[id].labels]

\* Lines 104-105: out.write(image) returns nothing; a writer that is not open
\* or does not take the frame drops it silently.
Write ==
    /\ pc = "write"
    /\ written' = Append(written, Resize(frame1))
    /\ \E taken \in {outOpened, FALSE} :
        failedAt' = IF ~taken /\ failedAt = 0 THEN iter ELSE failedAt
    /\ pc' = "show"
    /\ UNCHANGED <<capOpened, outOpened, frames, frame1, frame2, ret, stage,
                   contours, shown, diffLog, cleanupLog, reads, iter, escAt>>

\* Line 108: cv2.imshow("feed", frame1)
Show ==
    /\ pc = "show"
    /\ shown' = frame1
    /\ pc' = "roll"
    /\ UNCHANGED <<capOpened, outOpened, frames, frame1, frame2, ret, stage,
                   contours, written, diffLog, cleanupLog, reads, iter, escAt,
                   failedAt>>

\* Variants of the roll: frame1 never rolled, and the read made before the roll.
RollReadStale ==
    /\ pc = "roll"
    /\ frame1' = frame1
    /\ \/ /\ CanYield
          /\ \E pix \in FrameVals : frames' = Append(frames, Fresh(pix))
          /\ frame2' = Len(frames) + 1
          /\ ret' = TRUE
       \/ /\ frames' = frames
          /\ frame2' = NULL
          /\ ret' = FALSE
    /\ reads' = reads + 1
    /\ pc' = "waitkey"
    /\ UNCHANGED <<capOpened, outOpened, stage, contours, written, shown,
                   diffLog, cleanupLog, iter, escAt, failedAt>>
RollReadSwapped ==
    /\ pc = "roll"
    /\ \/ /\ CanYield
          /\ \E pix \in FrameVals : frames' = Append(frames, Fresh(pix))
          /\ frame2' = Len(frames) + 1
          /\ ret' = TRUE
       \/ /\ frames' = frames
          /\ frame2' = NULL
          /\ ret' = FALSE
    /\ frame1' = frame2'
    /\ reads' = reads + 1
    /\ pc' = "waitkey"
    /\ UNCHANGED <<capOpened, outOpened, stage, contours, written, shown,
                   diffLog, cleanupLog, iter, escAt, failedAt>>
\* Lines 111-112: frame1 = frame2; ret, frame2 = cap.read()
RollRead ==
    /\ pc = "roll"
    /\ frame1' = frame2
    /\ \/ /\ CanYield
          /\ \E pix \in FrameVals : frames' = Append(frames, Fresh(pix))
          /\ frame2' = Len(frames) + 1
          /\ ret' = TRUE
       \/ /\ frames' = frames
          /\ frame2' = NULL
          /\ ret' = FALSE
    /\ reads' = reads + 1
    /\ pc' = "waitkey"
    /\ UNCHANGED <<capOpened, outOpened, stage, contours, written, shown,
                   diffLog, cleanupLog, iter, escAt, failedAt>>

\* Variant of the ESC poll that does not leave the loop.
WaitKeyContinue ==
    /\ pc = "waitkey"
    /\ \E key \in KeyVals :
        /\ escAt' = IF key = EscKey THEN iter ELSE escAt
        /\ pc' = "guard"
    /\ UNCHANGED <<capOpened, outOpened, frames, frame1, frame2, ret, stage,
                   contours, written, shown, diffLog, cleanupLog, reads, iter,
                   failedAt>>
\* Lines 115-116: if cv2.waitKey(40) == 27: break
WaitKey ==
    /\ pc = "waitkey"
    /\ \E key \in KeyVals :
        /\ escAt' = IF key = EscKey THEN iter ELSE escAt
        /\ pc' = IF key = EscKey THEN "release_cap" ELSE "guard"
    /\ UNCHANGED <<capOpened, outOpened, frames, frame1, frame2, ret, stage,
                   contours, written, shown, diffLog, cleanupLog, reads, iter,
                   failedAt>>

\* Line 119: cap.release()
ReleaseCap ==
    /\ pc = "release_cap"
    /\ capOpened' = FALSE
    /\ cleanupLog' = Append(cleanupLog, "cap.release")
    /\ pc' = "release_out"
    /\ UNCHANGED <<outOpened, frames, frame1, frame2, ret, stage, contours,
                   written, shown, diffLog, reads, iter, escAt, failedAt>>

\* Line 120: out.release()
ReleaseOut ==
    /\ pc = "release_out"
    /\ outOpened' = FALSE
    /\ cleanupLog' = Append(cleanupLog, "out.release")
    /\ pc' = "destroy"
    /\ UNCHANGED <<capOpened, frames, frame1, frame2, ret, stage, contours,
                   written, shown, diffLog, reads, iter, escAt, failedAt>>

\* Line 121: cv2.destroyAllWindows()
DestroyAllWindows ==
    /\ pc = "destroy"
    /\ shown' = NULL
    /\ cleanupLog' = Append(cleanupLog, "destroyAllWindows")
    /\ pc' = "done"
    /\ UNCHANGED <<capOpened, outOpened, frames, frame1, frame2, ret, stage,
                   contours, written, diffLog, reads, iter, escAt, failedAt>>

Next ==
    \/ Read1
    \/ Read2
    \/ PrintShape
    \/ LoopGuard
    \/ AbsDiffStep
    \/ GrayStep
    \/ BlurStep
    \/ ThresholdStep
    \/ DilateStep
    \/ FindContoursStep
    \/ ProcessContours
    \/ Write
    \/ Show
    \/ RollRead
    \/ WaitKey
    \/ ReleaseCap
    \/ ReleaseOut
    \/ DestroyAllWindows

Spec == Init /\ [][Next]_vars

-----------------------------------------------------------------------------
\* Properties.

InBody == {"gray", "blur", "threshold", "dilate", "findcontours", "contours",
           "write", "show", "roll"}
InCleanup == {"release_cap", "release_out", "destroy", "done"}
CleanupCalls == <<"cap.release", "out.release", "destroyAllWindows">>
AllZero(m) == \A i \in DOMAIN m : m[i] = 0
Range(q) == {q[k] : k \in DOMAIN q}
NumSurvivors == Cardinality({k \in DOMAIN contours : contours[k].area >= 800})

\* C1 (as claimed): wherever the capture source stops yielding frames, the
\* script ends without raising an error; it never stops short of the cleanup.
C1_ExhaustionEndsNormally == pc # "crashed"

\* C2 (as claimed): once out.write has failed, the loop aborts: no further
\* capture read, pipeline run or write happens after the failed write.
C2_EncodeFailureAborts ==
    failedAt > 0 =>
        /\ iter = failedAt
        /\ reads = failedAt + 1
        /\ Len(diffLog) = failedAt
        /\ Len(written) = failedAt

\* C3 (as claimed): every cell of the blurred map that is >= 20 becomes 255,
\* every other cell 0.
C3_ThresholdAtLeast ==
    stage.thresh # << >> =>
        \A i \in Cells : stage.thresh[i] = IF stage.blur[i] >= 20 THEN 255 ELSE 0

\* C3 (amended): every cell of the blurred map that is > 20 becomes 255, every
\* other cell 0; a cell that is exactly 20 becomes 0; the mask holds only 0 and 255.
C3_ThresholdStrict ==
    stage.thresh # << >> =>
        \A i \in Cells :
            /\ stage.thresh[i] \in {0, 255}
            /\ stage.blur[i] > 20 => stage.thresh[i] = 255
            /\ stage.blur[i] < 20 => stage.thresh[i] = 0
            /\ stage.blur[i] = 20 => stage.thresh[i] = 0

C3_Witness ==
    /\ stage.thresh # << >>
    /\ \E i, j \in Cells :
        /\ stage.blur[i] = 20 /\ stage.thresh[i] = 0
        /\ stage.blur[j] > 20 /\ stage.thresh[j] = 255

\* C4 (as claimed): after the contour loop the label has been drawn exactly once
\* if at least one contour survived the area filter and not at all otherwise,
\* and one rectangle per surviving contour.
C4_LabelOnce ==
    pc = "write" =>
        /\ frames[frame1].labels = IF NumSurvivors >= 1 THEN 1 ELSE 0
        /\ Len(frames[frame1].rects) = NumSurvivors

\* C4 (amended): after the contour loop the label has been drawn once per
\* surviving contour (not at all if none survived), and one rectangle per
\* surviving contour.
C4_LabelPerSurvivor ==
    pc = "write" =>
        /\ frames[frame1].labels = NumSurvivors
        /\ Len(frames[frame1].rects) = NumSurvivors

C4_Witness ==
    /\ pc = "write"
    /\ Len(contours) = 2
    /\ contours[1].area = 799
    /\ contours[2].area = 800
    /\ frames[frame1].labels = 1

\* Thresholds tried for the monotonicity of the filter.
MinAreaVals == {799, 800, 801}

\* C5: a contour below 800 never produces a rectangle, every contour of area
\* 800 or more (exactly 800 included) produces one, and on the same contours a
\* lower minArea never leaves fewer survivors.
C5_AreaFilter ==
    pc = "write" =>
        /\ \A k \in DOMAIN contours :
            LET r == [x |-> contours[k].a - 1, w |-> contours[k].b - contours[k].a + 1]
            IN  /\ contours[k].area < 800 => r \notin Range(frames[frame1].rects)
                /\ contours[k].area >= 800 => r \in Range(frames[frame1].rects)
        /\ Len(frames[frame1].rects) = NumSurvivors
        /\ \A lo, hi \in MinAreaVals :
            lo <= hi => Len(Surviving(contours, lo)) >= Len(Surviving(contours, hi))

C5_Witness ==
    /\ pc = "write"
    /\ Len(contours) = 2
    /\ contours[1].area = 800
    /\ contours[2].area = 799
    /\ Len(frames[frame1].rects) = 1
    /\ Len(Surviving(contours, 799)) = 2
    /\ Len(Surviving(contours, 801)) = 0

\* C6: when the two frames of an iteration are identical, every stage from the
\* difference map to the dilated mask is all-zero, no contour is found, nothing
\* is drawn on frame1, and the image handed to the writer carries no drawing.
C6_IdenticalFrames ==
    (pc \in InBody /\ frames[frame1].pix = frames[frame2].pix) =>
        /\ \A i \in Cells : \A c \in 1..3 : stage.diff[i][c] = 0
        /\ AllZero(stage.gray) /\ AllZero(stage.blur)
        /\ AllZero(stage.thresh) /\ AllZero(stage.dilated)
        /\ pc \in {"contours", "write", "show", "roll"} => contours = << >>
        /\ pc \in {"write", "show", "roll"} => Clean(frame1)
        /\ pc \in {"show", "roll"} =>
            /\ written[Len(written)].of = frame1
            /\ written[Len(written)].rects = << >>
            /\ written[Len(written)].labels = 0

C6_Witness ==
    /\ pc = "show"
    /\ frames[frame1].pix = frames[frame2].pix
    /\ frames[frame1].pix # Uniform(Black)
    /\ AllZero(stage.dilated)
    /\ Len(stage.dilated) = W

\* C7: when the source yields N >= 2 frames and then fails a read, with no ESC,
\* the loop runs N-1 iterations, iteration k differences captured frames k and
\* k+1, and N-1 images are handed to the writer, the k-th being captured frame
\* k as annotated; the last captured frame is never written.
C7_OncePerConsecutivePair ==
    (pc = "done" /\ escAt = 0 /\ Len(frames) >= 2) =>
        LET N == Len(frames)
        IN  /\ iter = N - 1
            /\ Len(diffLog) = N - 1
            /\ Len(written) = N - 1
            /\ \A k \in 1..(N - 1) :
                /\ diffLog[k].a = k
                /\ diffLog[k].b = k + 1
                /\ written[k].of = k
                /\ written[k].rects = frames[k].rects
                /\ written[k].labels = frames[k].labels
            /\ Clean(N)

C7_Witness ==
    /\ pc = "done"
    /\ escAt = 0
    /\ Len(frames) = 3
    /\ Len(written) = 2
    /\ ~Clean(2)

\* C8: both operands of every absdiff are frames as the capture source
\* delivered them: a frame carries drawing only while it is frame1 and after
\* its difference was taken, and never while it is frame2.
C8_NoFeedback ==
    /\ \A k \in DOMAIN diffLog : diffLog[k].clean
    /\ \A id \in DOMAIN frames :
        ~Clean(id) =>
            /\ id # frame2
            /\ id = frame1 => pc \in {"write", "show", "roll"}
            /\ \E k \in DOMAIN diffLog : diffLog[k].a = id

C8_Witness ==
    /\ Len(diffLog) = 2
    /\ ~Clean(1)
    /\ diffLog[2].clean

\* C9: whenever a loop body starts, and through all the pipeline steps, frame1
\* and frame2 both hold a captured frame.
C9_FramesNonNull ==
    pc \in ({"absdiff"} \cup InBody) =>
        /\ frame1 # NULL /\ frame1 \in DOMAIN frames
        /\ frame2 # NULL /\ frame2 \in DOMAIN frames

C9_Witness ==
    /\ pc = "absdiff"
    /\ iter = 2
    /\ frame1 = 2
    /\ frame2 = 3

\* C10: ESC is polled after the iteration's write and read; once waitKey has
\* returned 27 the iteration's frame is already written, the frame just read is
\* never differenced, drawn on or written, nothing more is read or written, and
\* cap.release, out.release, destroyAllWindows run once each, in that order.
C10_EscEndsLoop ==
    /\ pc = "waitkey" => (Len(written) = iter /\ reads = iter + 2)
    /\ \A n \in DOMAIN cleanupLog : cleanupLog[n] = CleanupCalls[n]
    /\ Len(cleanupLog) <= 3
    /\ pc = "done" => cleanupLog = CleanupCalls
    /\ escAt > 0 =>
        /\ pc \in InCleanup
        /\ iter = escAt
        /\ reads = escAt + 2
        /\ Len(written) = escAt
        /\ written[escAt].of = escAt
        /\ Len(diffLog) = escAt
        /\ ret =>
            /\ frame2 = Len(frames)
            /\ Clean(frame2)
            /\ \A k \in DOMAIN written : written[k].of # frame2
            /\ \A k \in DOMAIN diffLog : diffLog[k].a # frame2 /\ diffLog[k].b # frame2

C10_Witness ==
    /\ pc = "done"
    /\ escAt = 1
    /\ ret
    /\ Len(frames) = 3
    /\ Len(written) = 1

====
